---- MODULE Spec2Model ----
(***************************************************************************)
(* Conversation session controller, extraction orchestrator and entry      *)
(* store of src/index.tsx (the App component), as a state machine.         *)
(*                                                                         *)
(* Conventions                                                             *)
(*  - Sequences are 1-based: message index i here is index i-1 in the      *)
(*    source.                                                              *)
(*  - A handler runs to its first await in one step; what follows an await *)
(*    is a separate step (ChatReturn, OrganizeReturn).  A handler sees the *)
(*    state of the last render, which is the current state, because React  *)
(*    renders between two events.                                          *)
(*  - relatedEntryIds = << >> stands for "no relatedEntryIds": the source  *)
(*    only ever sets a non-empty list (line 1335 guards length > 0).       *)
(*  - Math.random ids are fresh: nextId.                                   *)
(***************************************************************************)
EXTENDS Integers, Sequences, FiniteSets, TLC

VARIABLES
    messages,            \* ChatMessage[]                       (line 1088)
    rawLogs,             \* RawLog[]                            (line 1089)
    entries,             \* Entry[]                             (line 1087)
    isProcessing,        \* the busy flag                       (line 1100)
    abortControllerRef,  \* controller of the turn that set it  (line 1101)
    chatSettings,        \* chatEnabled, organizerEnabled       (line 1111)
    categoryMeta,        \* category key -> group               (line 1122)
    editingMsgIndex,     \* index of the message being edited   (line 1098)
    turns,               \* handler invocations suspended at an await
    nextTurn,            \* number of turns (controllers) created so far + 1
    nextId,              \* next fresh Math.random id
    now,                 \* Date.now()
    unhandled,           \* handler invocations that ended by an uncaught exception
    lastOp,              \* history: the last handler or continuation that ran
    stopped,             \* history: the turns whose conversational call was
                         \* pending when Stop was pressed
    groups,              \* GroupDef[], by id                  (line 1121)
    customSchemas,       \* category key -> FieldSchema[]      (line 1120)
    editingSchemaCat,    \* category open in the field editor  (line 1126)
    relevantHistory      \* what getFilteredHistory returned last (line 1319)

vars == <<messages, rawLogs, entries, isProcessing, abortControllerRef,
          chatSettings, categoryMeta, editingMsgIndex, turns, nextTurn,
          nextId, now, unhandled, lastOp, stopped, groups, customSchemas,
          editingSchemaCat, relevantHistory>>

\* The state the chat handlers never write.
configVars == <<groups, customSchemas, editingSchemaCat, relevantHistory>>

-----------------------------------------------------------------------------
(* Bounds *)

MaxTurns == 2
MaxClock == 1

-----------------------------------------------------------------------------
(* Values *)

Undefined == "undefined"
NoController == 0
NoIndex == 0
Today == "today"

UserTexts == {"hi", " "}
EditTexts == {"ed"}

Trim(text) == IF text = " " THEN "" ELSE text

Includes(s, sub) ==
    \E i \in 1..Len(s) :
        /\ i + Len(sub) - 1 <= Len(s)
        /\ SubSeq(s, i, i + Len(sub) - 1) = sub

INITIAL_CATEGORY_META ==
    [k \in {"finance_tracking", "diary", "study", "entertainment", "movie",
            "reading", "dining", "housework", "personal_care", "exercise",
            "sleep", "weight", "medical", "checkup", "physiology", "work",
            "idea", "other"} |->
        IF k \in {"exercise", "sleep", "weight", "medical", "checkup", "physiology"}
        THEN "body"
        ELSE IF k \in {"work", "idea"} THEN "work" ELSE "life"]

ChatMessage(role, text, timestamp, relatedEntryIds) ==
    [role |-> role, text |-> text, timestamp |-> timestamp,
     relatedEntryIds |-> relatedEntryIds]

RawLog(id, timestamp, text) == [id |-> id, timestamp |-> timestamp, text |-> text]

-----------------------------------------------------------------------------
(* The conversational call *)

\* process.env.API_KEY of the build (line 9).  This is a build with a key:
\* without one neither call is ever pending.
GOOGLE_API_KEY == TRUE

ChatOutcomes == {"text", "empty", "error"}

\* What chatWithGemini returns: outcome is what the capability did, aborted
\* whether the signal fired while the call was pending.
chatWithGemini(outcome, aborted) ==
    IF ~GOOGLE_API_KEY THEN "Error: No API Key"
    ELSE IF aborted THEN ""
    ELSE IF outcome = "text" THEN "reply"
    ELSE IF outcome = "empty" THEN ""
    ELSE "Thinking process interrupted or failed."

\* JavaScript's  s || "..."
OrPlaceholder(s) == IF s = "" THEN "..." ELSE s

-----------------------------------------------------------------------------
(* The extraction call *)

\* A JSON value as far as the code looks at it: its type, its .length
\* (-1: undefined) and, for an array, its elements.
JNull == [t |-> "null", len |-> -1, items |-> << >>]
JNumber == [t |-> "number", len |-> -1, items |-> << >>]
JObject == [t |-> "object", len |-> -1, items |-> << >>]
JString(n) == [t |-> "string", len |-> n, items |-> << >>]
JArray(items) == [t |-> "array", len |-> Len(items), items |-> items]

\* The array elements the capability may return.
NullItem ==
    [isNull |-> TRUE, date |-> Undefined, category |-> Undefined,
     event |-> Undefined, details |-> Undefined]
GoodItem ==
    [isNull |-> FALSE, date |-> "2024-01-01", category |-> "diary",
     event |-> "walk", details |-> "details"]
UnknownCategoryItem ==
    [isNull |-> FALSE, date |-> "2024-01-01", category |-> "bogus",
     event |-> "walk", details |-> "details"]
NoCategoryItem ==
    [isNull |-> FALSE, date |-> Undefined, category |-> Undefined,
     event |-> "walk", details |-> Undefined]

ExtractionArrays ==
    { << >>, <<GoodItem>>, <<GoodItem, GoodItem>>, <<UnknownCategoryItem>>,
      <<NoCategoryItem, GoodItem>>, <<NullItem>>, <<GoodItem, NullItem>> }

JsonValues ==
    {JNull, JNumber, JObject, JString(0), JString(3)}
        \cup {JArray(a) : a \in ExtractionArrays}

\* What the capability does: a transport failure, a response without text,
\* text that is not JSON, or text that is JSON.
Response(kind, value) == [kind |-> kind, value |-> value]
ExtractionResponses ==
    {Response(k, JNull) : k \in {"throw", "notext", "unparsable"}}
        \cup {Response("json", v) : v \in JsonValues}

organizeInput(resp) ==
    IF ~GOOGLE_API_KEY THEN JArray(<< >>)
    ELSE IF resp.kind = "throw" THEN JArray(<< >>)
    ELSE IF resp.kind = "notext" THEN JArray(<< >>)
    ELSE IF resp.kind = "unparsable" THEN JArray(<< >>)
    ELSE resp.value

\* JavaScript's  structuredData && structuredData.length > 0
NonEmpty(sd) ==
    /\ sd.t # "null"
    /\ ~(sd.t = "string" /\ sd.len = 0)
    /\ sd.len > 0

\* structuredData.map((d) => ({ ... d.date ... })) raises a TypeError when
\* structuredData has no map (a string) or an element is null.
MapThrows(sd) ==
    \/ sd.t # "array"
    \/ \E i \in 1..Len(sd.items) : sd.items[i].isNull

Entry(id, d) ==
    [id |-> id,
     date |-> IF d.date = Undefined THEN Today ELSE d.date,
     category |-> d.category,
     event |-> d.event,
     details |-> IF d.details = Undefined THEN "{}" ELSE d.details]

\* A batch cut down to its first candidate.
NewEntriesFirstOnly(sd, firstId) == <<Entry(firstId, sd.items[1])>>

NewEntries(sd, firstId) ==
    [i \in 1..Len(sd.items) |-> Entry(firstId + i - 1, sd.items[i])]

RECURSIVE Join(_)
Join(es) ==
    IF es = << >> THEN ""
    ELSE "[" \o Head(es).date \o "] " \o Head(es).event
            \o (IF Len(es) > 1 THEN ", " ELSE "") \o Join(Tail(es))

SavedText(newEntries) == "Saved: " \o Join(newEntries)

Ids(es) == [i \in 1..Len(es) |-> es[i].id]

-----------------------------------------------------------------------------
(* Turns: handler invocations suspended at an await *)

\* History: op is the handler that ran last, arg its turn or the message index
\* it was given, input the text or the entry ids it was given.
Op(op, arg) == [op |-> op, arg |-> arg, input |-> << >>]

\* aborted: the signal of the turn's controller has fired.
Turn(kind, pc, organizerEnabled, text, msgIndex) ==
    [kind |-> kind, pc |-> pc, aborted |-> FALSE,
     organizerEnabled |-> organizerEnabled, text |-> text, msgIndex |-> msgIndex]

Put(t, r) == [u \in DOMAIN turns \cup {t} |-> IF u = t THEN r ELSE turns[u]]
Remove(t) == [u \in DOMAIN turns \ {t} |-> turns[u]]

InFlight == DOMAIN turns

Hole == ChatMessage("hole", "", -1, << >>)

\* A write that appends the text as a new message.
SetTextAtEnd(ms, msgIndex, text) ==
    Append(ms, ChatMessage("model", text, -1, << >>))

\* next[msgIndex] = { ...next[msgIndex], text }: past the end of the array the
\* assignment creates an element that has only a text, after holes.
SetText(ms, msgIndex, text) ==
    IF msgIndex <= Len(ms)
    THEN [ms EXCEPT ![msgIndex].text = text]
    ELSE [i \in 1..msgIndex |->
            IF i <= Len(ms) THEN ms[i]
            ELSE IF i < msgIndex THEN Hole
            ELSE ChatMessage(Undefined, text, -1, << >>)]

-----------------------------------------------------------------------------
(* handleSendMessage *)

\* A guard that looks at the text only.
SendRejectedBlankOnly(inputText) == Trim(inputText) = ""

\* Lines 1305-1306: the two early returns.
SendRejected(inputText) == Trim(inputText) = "" \/ isProcessing

\* A log that is kept only for the extraction module.
LogRawWhenOrganizing(prev, userMsg) ==
    IF chatSettings.organizerEnabled
    THEN Append(prev, RawLog(nextId, userMsg.timestamp, userMsg.text))
    ELSE prev

\* Line 1317.
LogRaw(prev, userMsg) ==
    Append(prev, RawLog(nextId, userMsg.timestamp, userMsg.text))

handleSendMessage(inputText) ==
    IF SendRejected(inputText)
    THEN /\ lastOp' = [op |-> "submit", arg |-> 0, input |-> inputText]
         /\ UNCHANGED <<messages, rawLogs, entries, isProcessing,
                        abortControllerRef, chatSettings, categoryMeta,
                        editingMsgIndex, turns, nextTurn, nextId, now, unhandled,
                        stopped, configVars>>
    ELSE /\ nextTurn <= MaxTurns
         /\ LET controller == nextTurn
                userMsg == ChatMessage("user", inputText, now, << >>)
                pc == IF chatSettings.chatEnabled THEN "chat"
                      ELSE IF chatSettings.organizerEnabled THEN "organize"
                      ELSE "done"
            IN  /\ messages' = Append(messages, userMsg)
                /\ rawLogs' = LogRaw(rawLogs, userMsg)
                /\ nextId' = nextId + 1
                /\ IF pc = "done"
                   THEN /\ isProcessing' = FALSE
                        /\ abortControllerRef' = NoController
                        /\ turns' = turns
                   ELSE /\ isProcessing' = TRUE
                        /\ abortControllerRef' = controller
                        /\ turns' = Put(controller,
                                        Turn("send", pc,
                                             chatSettings.organizerEnabled,
                                             userMsg.text, NoIndex))
                /\ nextTurn' = nextTurn + 1
                /\ lastOp' = [op |-> "submit", arg |-> controller, input |-> inputText]
                /\ UNCHANGED <<stopped, configVars>>
         /\ UNCHANGED <<entries, chatSettings, categoryMeta, editingMsgIndex,
                        now, unhandled>>

\* Lines 1355-1356: the end of handleSendMessage.
FinishSend(t) ==
    /\ isProcessing' = FALSE
    /\ abortControllerRef' = NoController
    /\ turns' = Remove(t)

\* A continuation that does not look at the signal.
SendAfterChatIgnoringAbort(t, response, aborted) ==
    /\ messages' = Append(messages,
                     ChatMessage("model", OrPlaceholder(response), now, << >>))
    /\ IF turns[t].organizerEnabled
       THEN /\ turns' = [turns EXCEPT ![t].pc = "organize"]
            /\ UNCHANGED <<isProcessing, abortControllerRef>>
       ELSE FinishSend(t)

\* Lines 1323-1331: after await chatWithGemini.
SendAfterChat(t, response, aborted) ==
    IF aborted
    THEN /\ isProcessing' = FALSE
         /\ turns' = Remove(t)
         /\ UNCHANGED <<messages, abortControllerRef>>
    ELSE /\ messages' = Append(messages,
                          ChatMessage("model", OrPlaceholder(response), now, << >>))
         /\ IF turns[t].organizerEnabled
            THEN /\ turns' = [turns EXCEPT ![t].pc = "organize"]
                 /\ UNCHANGED <<isProcessing, abortControllerRef>>
            ELSE FinishSend(t)

\* A summary that is written as a reply of the model.
SavedMessageAsModel(newEntries) ==
    ChatMessage("model", SavedText(newEntries), now, Ids(newEntries))

\* Lines 1345-1351: the system message that announces the new entries.
SavedMessage(newEntries) ==
    ChatMessage("system", SavedText(newEntries), now, Ids(newEntries))

\* Lines 1333-1356: after await organizeInput.
SendAfterOrganize(t, structuredData) ==
    IF NonEmpty(structuredData)
    THEN IF MapThrows(structuredData)
         THEN /\ unhandled' = unhandled + 1
              /\ turns' = Remove(t)
              /\ UNCHANGED <<messages, entries, nextId, isProcessing,
                             abortControllerRef>>
         ELSE LET newEntries == NewEntries(structuredData, nextId)
              IN  /\ entries' = entries \o newEntries
                  /\ messages' = Append(messages, SavedMessage(newEntries))
                  /\ nextId' = nextId + Len(newEntries)
                  /\ FinishSend(t)
                  /\ UNCHANGED unhandled
    ELSE /\ FinishSend(t)
         /\ UNCHANGED <<messages, entries, nextId, unhandled>>

-----------------------------------------------------------------------------
(* handleRegenerateChat, handleSaveAndRegenerate *)

UserMessages(ms) == SelectSeq(ms, LAMBDA m : m.role = "user")

handleRegenerateChat(msgIndex) ==
    LET prevMsgs == SubSeq(messages, 1, msgIndex - 1)
    IN  IF UserMessages(prevMsgs) = << >>
        THEN /\ lastOp' = Op("regenerate", 0)
             /\ UNCHANGED <<messages, rawLogs, entries, isProcessing,
                            abortControllerRef, chatSettings, categoryMeta,
                            editingMsgIndex, turns, nextTurn, nextId, now,
                            unhandled, stopped, configVars>>
        ELSE /\ nextTurn <= MaxTurns
             /\ LET userMsg == UserMessages(prevMsgs)[Len(UserMessages(prevMsgs))]
                IN  turns' = Put(nextTurn,
                                 Turn("regen", "chat", FALSE, userMsg.text, msgIndex))
             /\ isProcessing' = TRUE
             /\ abortControllerRef' = nextTurn
             /\ nextTurn' = nextTurn + 1
             /\ lastOp' = [op |-> "regenerate", arg |-> nextTurn, input |-> msgIndex]
             /\ UNCHANGED <<stopped, configVars>>
             /\ UNCHANGED <<messages, rawLogs, entries, chatSettings,
                            categoryMeta, editingMsgIndex, nextId, now, unhandled>>

\* Lines 1385-1392: after await chatWithGemini.
RegenerateAfterChat(t, newResponse, aborted) ==
    /\ messages' = IF aborted THEN messages
                   ELSE SetText(messages, turns[t].msgIndex,
                                OrPlaceholder(newResponse))
    /\ isProcessing' = FALSE
    /\ turns' = Remove(t)
    /\ UNCHANGED abortControllerRef

\* An edit that keeps the later messages.
EditedInPlace(ms, index, newText) == [ms EXCEPT ![index].text = newText]

\* Lines 1396-1397: messages.slice(0, index + 1) with the new text at index.
Truncated(ms, index, newText) ==
    [SubSeq(ms, 1, index) EXCEPT ![index].text = newText]

handleSaveAndRegenerate(index, newText) ==
    /\ nextTurn <= MaxTurns
    /\ LET nextMessages == Truncated(messages, index, newText)
       IN  messages' = nextMessages
    /\ editingMsgIndex' = NoIndex
    /\ abortControllerRef' = nextTurn
    /\ isProcessing' = TRUE
    /\ turns' = Put(nextTurn, Turn("save", "chat", FALSE, "", index))
    /\ nextTurn' = nextTurn + 1
    /\ lastOp' = [op |-> "save", arg |-> nextTurn, input |-> <<index, newText>>]
    /\ UNCHANGED <<stopped, configVars>>
    /\ UNCHANGED <<rawLogs, entries, chatSettings, categoryMeta, nextId, now,
                   unhandled>>

\* Lines 1421-1424: after await chatWithGemini.
SaveAfterChat(t, response, aborted) ==
    /\ messages' = IF aborted THEN messages
                   ELSE Append(messages, ChatMessage("model", response, now, << >>))
    /\ isProcessing' = FALSE
    /\ turns' = Remove(t)
    /\ UNCHANGED abortControllerRef

AfterChat(t, response, aborted) ==
    IF turns[t].kind = "send" THEN SendAfterChat(t, response, aborted)
    ELSE IF turns[t].kind = "regen" THEN RegenerateAfterChat(t, response, aborted)
    ELSE SaveAfterChat(t, response, aborted)

-----------------------------------------------------------------------------
(* The awaited calls return *)

\* The conversational call of turn t settles (its signal has not fired).
ChatReturn(t, outcome) ==
    /\ t \in InFlight
    /\ turns[t].pc = "chat"
    /\ AfterChat(t, chatWithGemini(outcome, FALSE), FALSE)
    /\ lastOp' = Op("chatReturn", t)
    /\ UNCHANGED <<stopped, configVars>>
    /\ UNCHANGED <<rawLogs, entries, chatSettings, categoryMeta,
                   editingMsgIndex, nextTurn, nextId, now, unhandled>>

\* The extraction call of turn t settles; organizeInput takes no signal.
OrganizeReturn(t, resp) ==
    /\ t \in InFlight
    /\ turns[t].pc = "organize"
    /\ SendAfterOrganize(t, organizeInput(resp))
    /\ lastOp' = Op("organizeReturn", t)
    /\ UNCHANGED <<stopped, configVars>>
    /\ UNCHANGED <<rawLogs, chatSettings, categoryMeta, editingMsgIndex,
                   nextTurn, now>>

\* What handleStop does to messages, turns, isProcessing, abortControllerRef.
\* abort() rejects the pending race of chatWithGemini (line 1230), whose
\* caller resumes before any other event is handled; organizeInput has no
\* signal.
Abort ==
    IF abortControllerRef # NoController
    THEN LET c == abortControllerRef
         IN  IF c \in InFlight /\ turns[c].pc = "chat"
             THEN AfterChat(c, chatWithGemini("text", TRUE), TRUE)
             ELSE /\ turns' = IF c \in InFlight
                              THEN [turns EXCEPT ![c].aborted = TRUE]
                              ELSE turns
                  /\ isProcessing' = FALSE
                  /\ UNCHANGED <<messages, abortControllerRef>>
    ELSE UNCHANGED <<messages, turns, isProcessing, abortControllerRef>>

handleStop ==
    /\ Abort
    /\ lastOp' = Op("stop", abortControllerRef)
    /\ stopped' = stopped \cup {t \in InFlight : turns[t].pc = "chat"}
    /\ UNCHANGED configVars
    /\ UNCHANGED <<rawLogs, entries, chatSettings, categoryMeta,
                   editingMsgIndex, nextTurn, nextId, now, unhandled>>

-----------------------------------------------------------------------------
(* handleUndo, handleDeleteMessage, handleUpdateMessage *)

Range(f) == {f[i] : i \in DOMAIN f}

\* A removal that stops at the first entry it finds.
UndoEntriesFirstOnly(prev, entryIds) ==
    LET hits == {i \in DOMAIN prev : prev[i].id \in Range(entryIds)}
    IN  IF hits = {} THEN prev
        ELSE LET h == CHOOSE i \in hits : \A j \in hits : i <= j
             IN  SubSeq(prev, 1, h - 1) \o SubSeq(prev, h + 1, Len(prev))

\* Line 1367.
UndoEntries(prev, entryIds) ==
    SelectSeq(prev, LAMBDA e : e.id \notin Range(entryIds))

\* A mark that lands on the message after the one named.
UndoMessagesOffByOne(prev, msgIndex) ==
    [i \in DOMAIN prev |->
        IF i = msgIndex + 1 /\ prev[i].role # "hole"
        THEN [prev[i] EXCEPT !.text = prev[i].text \o " (Revoked)"]
        ELSE prev[i]]

\* Lines 1368-1371; map leaves the holes alone.
UndoMessages(prev, msgIndex) ==
    [i \in DOMAIN prev |->
        IF i = msgIndex /\ prev[i].role # "hole"
        THEN [prev[i] EXCEPT !.text = prev[i].text \o " (Revoked)"]
        ELSE prev[i]]

handleUndo(msgIndex, entryIds) ==
    /\ entries' = UndoEntries(entries, entryIds)
    /\ messages' = UndoMessages(messages, msgIndex)
    /\ lastOp' = [op |-> "undo", arg |-> msgIndex, input |-> entryIds]
    /\ UNCHANGED <<stopped, configVars>>
    /\ UNCHANGED <<rawLogs, isProcessing, abortControllerRef, chatSettings,
                   categoryMeta, editingMsgIndex, turns, nextTurn, nextId, now,
                   unhandled>>

\* prev.filter((_, i) => i !== index); filter leaves the holes out.
DeleteAt(prev, index) ==
    LET keep == {i \in DOMAIN prev : i # index /\ prev[i].role # "hole"}
        RECURSIVE Build(_)
        Build(i) ==
            IF i > Len(prev) THEN << >>
            ELSE IF i \in keep THEN <<prev[i]>> \o Build(i + 1)
            ELSE Build(i + 1)
    IN  Build(1)

\* A delete that also drops the RawLog line written with the message.
handleDeleteMessageAndLog(index) ==
    /\ messages' = DeleteAt(messages, index)
    /\ rawLogs' = SelectSeq(rawLogs,
                    LAMBDA l : l.timestamp # messages[index].timestamp)
    /\ lastOp' = Op("delete", index)
    /\ UNCHANGED <<stopped, configVars>>
    /\ UNCHANGED <<entries, isProcessing, abortControllerRef,
                   chatSettings, categoryMeta, editingMsgIndex, turns, nextTurn,
                   nextId, now, unhandled>>

handleDeleteMessage(index) ==
    /\ messages' = DeleteAt(messages, index)
    /\ lastOp' = Op("delete", index)
    /\ UNCHANGED <<stopped, configVars>>
    /\ UNCHANGED <<rawLogs, entries, isProcessing, abortControllerRef,
                   chatSettings, categoryMeta, editingMsgIndex, turns, nextTurn,
                   nextId, now, unhandled>>

handleUpdateMessage(index, newText) ==
    /\ messages' = SetText(messages, index, newText)
    /\ editingMsgIndex' = NoIndex
    /\ lastOp' = Op("update", index)
    /\ UNCHANGED <<stopped, configVars>>
    /\ UNCHANGED <<rawLogs, entries, isProcessing, abortControllerRef,
                   chatSettings, categoryMeta, turns, nextTurn, nextId, now,
                   unhandled>>

\* The pencil button of a user message (line 1874) and Cancel (line 1895).
setEditingMsgIndex(idx) ==
    /\ editingMsgIndex' = idx
    /\ lastOp' = Op("edit", idx)
    /\ UNCHANGED <<stopped, configVars>>
    /\ UNCHANGED <<messages, rawLogs, entries, isProcessing, abortControllerRef,
                   chatSettings, categoryMeta, turns, nextTurn, nextId, now,
                   unhandled>>

\* The module switches of the settings panel (lines 1972, 1981).
setChatSettings(field, checked) ==
    /\ chatSettings' = [chatSettings EXCEPT ![field] = checked]
    /\ lastOp' = Op("settings", 0)
    /\ UNCHANGED <<stopped, configVars>>
    /\ UNCHANGED <<messages, rawLogs, entries, isProcessing, abortControllerRef,
                   categoryMeta, editingMsgIndex, turns, nextTurn, nextId, now,
                   unhandled>>

\* Time passes.
Tick ==
    /\ now < MaxClock
    /\ now' = now + 1
    /\ lastOp' = Op("tick", 0)
    /\ UNCHANGED <<stopped, configVars>>
    /\ UNCHANGED <<messages, rawLogs, entries, isProcessing, abortControllerRef,
                   chatSettings, categoryMeta, editingMsgIndex, turns, nextTurn,
                   nextId, unhandled>>

-----------------------------------------------------------------------------
(* The context selector *)

\* Milliseconds in a day (line 1200).
DAY == 86400000

\* The useState default of chatSettings (lines 1111-1118).  A date string
\* YYYY-MM-DD is the number of its day; day 0 is the day the page was opened.
DefaultChatSettings ==
    [chatEnabled |-> TRUE, organizerEnabled |-> TRUE, contextRounds |-> 10,
     contextMode |-> "global", customStartDate |-> 0, customEndDate |-> 0]

\* new Date(dateString).getTime()
DateTime(date) == date * DAY

\* The local calendar day of a timestamp (the local zone is UTC).
DayOf(timestamp) == timestamp \div DAY

isSameDay(d1, d2) == DayOf(d1) = DayOf(d2)

getRollingWeekRange(startDate) ==
    [start |-> DayOf(startDate) * DAY,
     end |-> (DayOf(startDate) + 6) * DAY + (DAY - 1)]

\* Array.prototype.slice(start)
Slice(seq, start) ==
    LET from == IF start < 0
                THEN (IF Len(seq) + start < 0 THEN 0 ELSE Len(seq) + start)
                ELSE (IF start > Len(seq) THEN Len(seq) ELSE start)
    IN  SubSeq(seq, from + 1, Len(seq))

getFilteredHistory(ms, settings, nowTime) ==
    LET users == SelectSeq(ms, LAMBDA m : m.role = "user")
        week == getRollingWeekRange(nowTime)
        s == DateTime(settings.customStartDate)
        e == DateTime(settings.customEndDate) + DAY
        filtered ==
            IF settings.contextMode = "today"
            THEN SelectSeq(users, LAMBDA m : isSameDay(m.timestamp, nowTime))
            ELSE IF settings.contextMode = "week"
            THEN SelectSeq(users, LAMBDA m : m.timestamp >= week.start
                                              /\ m.timestamp <= week.end)
            ELSE IF settings.contextMode = "custom"
            THEN SelectSeq(users, LAMBDA m : m.timestamp >= s /\ m.timestamp <= e)
            ELSE users
    IN  IF settings.contextRounds < 9999
        THEN Slice(filtered, -settings.contextRounds)
        ELSE filtered

\* const relevantHistory = getFilteredHistory()  (line 1319); the result only
\* feeds the prompt of the conversational call.
Select ==
    /\ relevantHistory' = getFilteredHistory(messages, chatSettings, now)
    /\ lastOp' = Op("select", 0)
    /\ UNCHANGED <<messages, rawLogs, entries, isProcessing, abortControllerRef,
                   chatSettings, categoryMeta, editingMsgIndex, turns, nextTurn,
                   nextId, now, unhandled, stopped, groups, customSchemas,
                   editingSchemaCat>>

-----------------------------------------------------------------------------
(* The taxonomy: groups, categories and field schemas *)

NoCategory == "null"

STANDARD_FIELDS == {"summary", "time", "duration", "notes"}

FieldTypes == {"text", "number", "select", "multiselect", "date", "rating"}

\* A FieldSchema; the label is a display string, "label" until it is edited.
FieldSchema(key, type, required) ==
    [key |-> key, label |-> "label", type |-> type, required |-> required]

\* A seed that leaves the last standard field out.
createSchemaWithoutNotes(specificFields) ==
    <<FieldSchema("summary", "text", TRUE), FieldSchema("time", "text", TRUE),
      FieldSchema("duration", "text", FALSE)>> \o specificFields

createSchema(specificFields) ==
    <<FieldSchema("summary", "text", TRUE), FieldSchema("time", "text", TRUE),
      FieldSchema("duration", "text", FALSE)>>
        \o specificFields \o <<FieldSchema("notes", "text", TRUE)>>

INITIAL_SCHEMAS ==
    [k \in {"finance_tracking", "movie", "exercise", "sleep", "personal_care", "weight", "diary", "reading", "dining", "housework", "medical", "checkup", "physiology", "work", "idea", "study", "entertainment"} |->
        IF k = "finance_tracking" THEN
            createSchema(<<FieldSchema("transaction_type", "select", TRUE), FieldSchema("amount", "number", TRUE), FieldSchema("currency", "select", TRUE), FieldSchema("tags", "multiselect", TRUE), FieldSchema("payment_method", "select", FALSE), FieldSchema("merchant", "text", FALSE)>>)
        ELSE IF k = "movie" THEN
            createSchema(<<FieldSchema("title", "text", TRUE), FieldSchema("genre", "text", FALSE), FieldSchema("rating", "rating", FALSE)>>)
        ELSE IF k = "exercise" THEN
            createSchema(<<FieldSchema("type", "text", TRUE), FieldSchema("calories", "number", FALSE), FieldSchema("feeling", "text", FALSE)>>)
        ELSE IF k = "sleep" THEN
            createSchema(<<FieldSchema("waketime", "text", FALSE), FieldSchema("quality", "select", FALSE)>>)
        ELSE IF k = "personal_care" THEN
            createSchema(<<FieldSchema("item", "text", TRUE), FieldSchema("product", "text", FALSE)>>)
        ELSE IF k = "weight" THEN
            createSchema(<<FieldSchema("value", "number", TRUE), FieldSchema("fat_rate", "number", FALSE)>>)
        ELSE IF k = "diary" THEN
            createSchema(<<FieldSchema("mood", "text", FALSE), FieldSchema("weather", "text", FALSE)>>)
        ELSE IF k = "reading" THEN
            createSchema(<<FieldSchema("book_name", "text", TRUE), FieldSchema("author", "text", FALSE), FieldSchema("progress", "text", FALSE)>>)
        ELSE IF k = "dining" THEN
            createSchema(<<FieldSchema("food_items", "text", TRUE), FieldSchema("calories", "number", FALSE)>>)
        ELSE IF k = "housework" THEN
            createSchema(<<FieldSchema("task", "text", TRUE), FieldSchema("area", "text", FALSE)>>)
        ELSE IF k = "medical" THEN
            createSchema(<<FieldSchema("symptom", "text", TRUE), FieldSchema("diagnosis", "text", FALSE), FieldSchema("medicine", "text", FALSE)>>)
        ELSE IF k = "checkup" THEN
            createSchema(<<FieldSchema("hospital", "text", FALSE), FieldSchema("project", "text", TRUE), FieldSchema("result", "text", FALSE)>>)
        ELSE IF k = "physiology" THEN
            createSchema(<<FieldSchema("status", "select", TRUE)>>)
        ELSE IF k = "work" THEN
            createSchema(<<FieldSchema("project", "text", FALSE), FieldSchema("task", "text", TRUE), FieldSchema("status", "select", TRUE)>>)
        ELSE IF k = "idea" THEN
            createSchema(<<FieldSchema("topic", "text", TRUE)>>)
        ELSE IF k = "study" THEN
            createSchema(<<FieldSchema("subject", "text", TRUE), FieldSchema("content", "text", TRUE)>>)
        ELSE
            createSchema(<<FieldSchema("activity", "text", TRUE), FieldSchema("partners", "text", FALSE)>>)]

\* The ids of INITIAL_GROUPS, in order.
INITIAL_GROUPS == <<"life", "body", "work">>

\* 'cat_' + Math.random()..., 'field_' + Math.random()..., Math.random()...
CategoryKey(n) == "cat_" \o ToString(n)
FieldKey(n) == "field_" \o ToString(n)
GroupId(n) == "grp_" \o ToString(n)

\* customSchemas[cat] || []
SchemaOf(schemas, cat) == IF cat \in DOMAIN schemas THEN schemas[cat] ELSE << >>

\* { ...customSchemas, [cat]: fields }
WithSchema(schemas, cat, fields) ==
    [k \in DOMAIN schemas \cup {cat} |-> IF k = cat THEN fields ELSE schemas[k]]

chatVars == <<messages, rawLogs, entries, isProcessing, abortControllerRef,
              chatSettings, editingMsgIndex, turns, nextTurn, now, unhandled,
              stopped, relevantHistory>>

addGroup(label) ==
    /\ IF label # ""
       THEN /\ groups' = Append(groups, GroupId(nextId))
            /\ nextId' = nextId + 1
       ELSE UNCHANGED <<groups, nextId>>
    /\ lastOp' = [op |-> "addGroup", arg |-> 0, input |-> label]
    /\ UNCHANGED <<categoryMeta, customSchemas, editingSchemaCat, chatVars>>

\* A guard that knows the first core group only.
IsFirstCoreGroup(id) == INITIAL_GROUPS[1] = id

IsCoreGroup(id) == \E i \in DOMAIN INITIAL_GROUPS : INITIAL_GROUPS[i] = id

deleteGroup(id, confirmed) ==
    /\ IF IsCoreGroup(id) THEN UNCHANGED groups
       ELSE IF confirmed THEN groups' = SelectSeq(groups, LAMBDA g : g # id)
       ELSE UNCHANGED groups
    /\ lastOp' = [op |-> "deleteGroup", arg |-> 0, input |-> id]
    /\ UNCHANGED <<categoryMeta, customSchemas, editingSchemaCat, nextId, chatVars>>

\* A move that forgets the element it moves.
Overwritten(gs, idx, dir) == [gs EXCEPT ![idx] = gs[idx + dir]]

\* Lines 1590-1593: the swap through temp.
Swapped(gs, idx, dir) ==
    [gs EXCEPT ![idx] = gs[idx + dir], ![idx + dir] = gs[idx]]

moveGroup(idx, dir) ==
    /\ IF (idx = 1 /\ dir = -1) \/ (idx = Len(groups) /\ dir = 1)
       THEN UNCHANGED groups
       ELSE groups' = Swapped(groups, idx, dir)
    /\ lastOp' = [op |-> "moveGroup", arg |-> idx, input |-> dir]
    /\ UNCHANGED <<categoryMeta, customSchemas, editingSchemaCat, nextId, chatVars>>

addCategory(groupId, label) ==
    /\ IF label # ""
       THEN LET key == CategoryKey(nextId)
            IN  /\ categoryMeta' =
                        [k \in DOMAIN categoryMeta \cup {key} |->
                            IF k = key THEN groupId ELSE categoryMeta[k]]
                /\ customSchemas' = WithSchema(customSchemas, key, createSchema(<< >>))
                /\ editingSchemaCat' = key
                /\ nextId' = nextId + 1
       ELSE UNCHANGED <<categoryMeta, customSchemas, editingSchemaCat, nextId>>
    /\ lastOp' = [op |-> "addCategory", arg |-> 0, input |-> <<groupId, label>>]
    /\ UNCHANGED <<groups, chatVars>>

deleteCategory(key, confirmed) ==
    /\ IF confirmed
       THEN /\ categoryMeta' = [k \in DOMAIN categoryMeta \ {key} |-> categoryMeta[k]]
            /\ editingSchemaCat' =
                    IF editingSchemaCat = key THEN NoCategory ELSE editingSchemaCat
       ELSE UNCHANGED <<categoryMeta, editingSchemaCat>>
    /\ lastOp' = [op |-> "deleteCategory", arg |-> 0, input |-> key]
    /\ UNCHANGED <<groups, customSchemas, nextId, chatVars>>

setEditingSchemaCat(catKey) ==
    /\ editingSchemaCat' = catKey
    /\ lastOp' = [op |-> "selectCategory", arg |-> 0, input |-> catKey]
    /\ UNCHANGED <<groups, categoryMeta, customSchemas, nextId, chatVars>>

\* { ...field, ...changes }
Merge(field, changes) ==
    [f \in DOMAIN field |-> IF f \in DOMAIN changes THEN changes[f] ELSE field[f]]

updateField(key, idx, changes) ==
    /\ IF editingSchemaCat = NoCategory THEN UNCHANGED customSchemas
       ELSE LET currentFields == SchemaOf(customSchemas, editingSchemaCat)
            IN  customSchemas' =
                    WithSchema(customSchemas, editingSchemaCat,
                               [currentFields EXCEPT ![idx] = Merge(@, changes)])
    /\ lastOp' = [op |-> "updateField", arg |-> idx, input |-> key]
    /\ UNCHANGED <<groups, categoryMeta, editingSchemaCat, nextId, chatVars>>

\* currentFields.findIndex(f => f.key === 'notes'); 0 stands for -1.
NotesIdx(fields) ==
    IF \E i \in DOMAIN fields : fields[i].key = "notes"
    THEN CHOOSE i \in DOMAIN fields :
            /\ fields[i].key = "notes"
            /\ \A j \in 1..(i - 1) : fields[j].key # "notes"
    ELSE 0

\* currentFields.splice(notesIdx, 0, newField) or currentFields.push(newField)
InsertField(fields, newField) ==
    IF NotesIdx(fields) # 0
    THEN SubSeq(fields, 1, NotesIdx(fields) - 1) \o <<newField>>
            \o SubSeq(fields, NotesIdx(fields), Len(fields))
    ELSE Append(fields, newField)

addField ==
    /\ IF editingSchemaCat = NoCategory THEN UNCHANGED <<customSchemas, nextId>>
       ELSE /\ customSchemas' =
                    WithSchema(customSchemas, editingSchemaCat,
                               InsertField(SchemaOf(customSchemas, editingSchemaCat),
                                           [FieldSchema(FieldKey(nextId), "text", FALSE)
                                                EXCEPT !.label = "New Field"]))
            /\ nextId' = nextId + 1
    /\ lastOp' = Op("addField", 0)
    /\ UNCHANGED <<groups, categoryMeta, editingSchemaCat, chatVars>>

\* A guard that forgets notes.
IsStandardButNotes(field) == field.key \in {"summary", "time", "duration"}

\* ['summary', 'time', 'duration', 'notes'].includes(f.key)
IsStandard(field) == field.key \in STANDARD_FIELDS

\* currentFields.splice(idx, 1)
RemoveAt(fields, idx) == SubSeq(fields, 1, idx - 1) \o SubSeq(fields, idx + 1, Len(fields))

removeField(idx, confirmed) ==
    /\ IF editingSchemaCat = NoCategory THEN UNCHANGED customSchemas
       ELSE LET currentFields == SchemaOf(customSchemas, editingSchemaCat)
            IN  IF IsStandard(currentFields[idx]) THEN UNCHANGED customSchemas
                ELSE IF confirmed
                THEN customSchemas' =
                        WithSchema(customSchemas, editingSchemaCat,
                                   RemoveAt(currentFields, idx))
                ELSE UNCHANGED customSchemas
    /\ lastOp' = [op |-> "removeField", arg |-> idx, input |-> confirmed]
    /\ UNCHANGED <<groups, categoryMeta, editingSchemaCat, nextId, chatVars>>

-----------------------------------------------------------------------------
(* The application: what the rendered page lets the user do *)

\* The state after the first render, with the persisted chat settings
\* (lines 1087-1122, 1135-1174).
Loaded(settings) ==
    /\ messages = << >>
    /\ rawLogs = << >>
    /\ entries = << >>
    /\ isProcessing = FALSE
    /\ abortControllerRef = NoController
    /\ chatSettings = settings
    /\ categoryMeta = INITIAL_CATEGORY_META
    /\ editingMsgIndex = NoIndex
    /\ turns = << >>
    /\ nextTurn = 1
    /\ nextId = 1
    /\ now = 0
    /\ unhandled = 0
    /\ lastOp = Op("init", 0)
    /\ stopped = {}
    /\ groups = INITIAL_GROUPS
    /\ customSchemas = INITIAL_SCHEMAS
    /\ editingSchemaCat = NoCategory
    /\ relevantHistory = << >>

\* Nothing persisted: the defaults.
Init == Loaded(DefaultChatSettings)

\* Any persisted module switches.
InitSubmit ==
    \E chatEnabled \in BOOLEAN, organizerEnabled \in BOOLEAN :
        Loaded([DefaultChatSettings EXCEPT !.chatEnabled = chatEnabled,
                                           !.organizerEnabled = organizerEnabled])

\* The message rendered at idx (messages.map skips holes).
Rendered(idx) == idx \in DOMAIN messages /\ messages[idx].role # "hole"

Send == \E inputText \in UserTexts : handleSendMessage(inputText)

Stop == isProcessing /\ handleStop

Regenerate ==
    \E idx \in DOMAIN messages :
        /\ messages[idx].role = "model"
        /\ handleRegenerateChat(idx)

Edit ==
    \E idx \in DOMAIN messages :
        /\ messages[idx].role = "user"
        /\ editingMsgIndex # idx
        /\ setEditingMsgIndex(idx)

CancelEdit == Rendered(editingMsgIndex) /\ setEditingMsgIndex(NoIndex)

Save ==
    \E newText \in EditTexts :
        /\ Rendered(editingMsgIndex)
        /\ handleUpdateMessage(editingMsgIndex, newText)

SaveAndRegenerate ==
    \E newText \in EditTexts :
        /\ Rendered(editingMsgIndex)
        /\ handleSaveAndRegenerate(editingMsgIndex, newText)

Delete ==
    \E idx \in DOMAIN messages :
        /\ messages[idx].role = "user"
        /\ handleDeleteMessage(idx)

Revoke ==
    \E idx \in DOMAIN messages :
        /\ messages[idx].role = "system"
        /\ messages[idx].relatedEntryIds # << >>
        /\ ~Includes(messages[idx].text, "(Revoked)")
        /\ handleUndo(idx, messages[idx].relatedEntryIds)

Settings ==
    \E field \in {"chatEnabled", "organizerEnabled"} :
        setChatSettings(field, ~chatSettings[field])

ChatSettles == \E t \in InFlight, outcome \in ChatOutcomes : ChatReturn(t, outcome)

OrganizeSettles ==
    \E t \in InFlight, resp \in ExtractionResponses : OrganizeReturn(t, resp)

\* The extraction call fails or returns one well-formed candidate.
PlainResponses ==
    {Response("throw", JNull), Response("json", JArray(<<GoodItem>>))}

OrganizeSettlesPlain ==
    \E t \in InFlight, resp \in PlainResponses : OrganizeReturn(t, resp)

-----------------------------------------------------------------------------
(* Specifications *)

\* Turn taking: every way to start and to stop a turn.
Next ==
    \/ Send
    \/ Stop
    \/ Regenerate
    \/ Edit
    \/ CancelEdit
    \/ SaveAndRegenerate
    \/ ChatSettles
    \/ OrganizeSettlesPlain

Spec == Init /\ [][Next]_vars

\* Extraction: submit turns under every response of the extraction call and
\* every module setting, and the revocation of what they stored.
NextExtract ==
    \/ Send
    \/ Stop
    \/ Settings
    \/ ChatSettles
    \/ OrganizeSettles
    \/ Revoke

SpecExtract == Init /\ [][NextExtract]_vars

\* Submission: submit turns under any persisted module setting, as time passes.
NextSubmit ==
    \/ Send
    \/ Stop
    \/ Tick
    \/ ChatSettles
    \/ OrganizeSettlesPlain

SpecSubmit == InitSubmit /\ [][NextSubmit]_vars

\* Revocation as a function: handleUndo applied, and applied again, to any
\* store with any message index and any list of ids.
MaxStore == 3
MaxRevokes == 2

Stores ==
    UNION { { [i \in 1..n |-> Entry(perm[i], GoodItem)] : perm \in Permutations(1..n) }
            : n \in 0..MaxStore }

IdLists == UNION { [1..n -> 1..MaxStore] : n \in 0..2 }

UndoLog ==
    << ChatMessage("user", "hi", 0, << >>),
       ChatMessage("system", "Saved: [2024-01-01] walk", 0, <<1>>) >>

RevokedMarks(text) ==
    Cardinality({ i \in 1..Len(text) :
                    /\ i + 8 <= Len(text)
                    /\ SubSeq(text, i, i + 8) = "(Revoked)" })

InitUndo ==
    /\ messages = UndoLog
    /\ rawLogs = <<RawLog(9, 0, "hi")>>
    /\ entries \in Stores
    /\ isProcessing = FALSE
    /\ abortControllerRef = NoController
    /\ chatSettings = DefaultChatSettings
    /\ groups = INITIAL_GROUPS
    /\ customSchemas = INITIAL_SCHEMAS
    /\ editingSchemaCat = NoCategory
    /\ relevantHistory = << >>
    /\ categoryMeta = INITIAL_CATEGORY_META
    /\ editingMsgIndex = NoIndex
    /\ turns = << >>
    /\ nextTurn = 1
    /\ nextId = 10
    /\ now = 0
    /\ unhandled = 0
    /\ \E m \in 0..(Len(UndoLog) + 1), ids \in IdLists :
            lastOp = [op |-> "chosen", arg |-> m, input |-> ids]
    /\ stopped = {}

\* handleUndo with the chosen arguments, any number of times.
RevokeChosen ==
    /\ lastOp.arg \in DOMAIN messages =>
            RevokedMarks(messages[lastOp.arg].text) < MaxRevokes
    /\ handleUndo(lastOp.arg, lastOp.input)

NextUndo == RevokeChosen

SpecUndo == InitUndo /\ [][NextUndo]_vars

\* ---------------------------------------------------------------------------
\* Properties
\* ---------------------------------------------------------------------------

\* C1: at most one turn is in flight at any time: a submit, a regenerate or
\* an edit-and-replay never starts while another turn is still running, also
\* after Stop.
C1_AtMostOneTurnInFlight == Cardinality(InFlight) <= 1

\* C2: a submit made while a turn is in flight is rejected and leaves the
\* messages, the RawLog, the entries, the busy flag and the abort controller
\* as they were.
C2_BusySubmitChangesNothing ==
    [][(isProcessing /\ lastOp'.op = "submit") =>
            UNCHANGED <<messages, rawLogs, entries, isProcessing, abortControllerRef>>]_vars

\* A non-blank submit has just been rejected while a turn was running.
C2_Witness ==
    /\ lastOp.op = "submit"
    /\ lastOp.arg = 0
    /\ lastOp.input = "hi"
    /\ isProcessing
    /\ InFlight # {}

\* C3: when Stop was pressed while the extraction call of a submit turn was
\* pending, the return of that call inserts no entry and appends no message.
C3_StoppedExtractionStoresNothing ==
    [][\A t \in InFlight :
            (/\ turns[t].kind = "send"
             /\ turns[t].pc = "organize"
             /\ turns[t].aborted
             /\ lastOp' = Op("organizeReturn", t))
            => (entries' = entries /\ messages' = messages)]_vars

\* C4: when Stop is pressed while the conversational call of a submit turn
\* is pending, the busy flag becomes false and the return of that call
\* appends no message; a call that was not stopped appends its reply or the
\* failure text.
C4_StoppedChatAppendsNothing ==
    [][/\ lastOp'.op = "stop" => ~isProcessing'
       /\ \A t \in InFlight :
            (/\ turns[t].kind = "send"
             /\ turns[t].pc = "chat"
             /\ lastOp' = Op("chatReturn", t))
            => IF t \in stopped
               THEN messages' = messages
               ELSE /\ Len(messages') = Len(messages) + 1
                    /\ messages'[Len(messages')].role = "model"]_vars

\* C7: every entry of the Entry Store carries a category of the taxonomy.
C7_EntriesCarryKnownCategory ==
    \A i \in DOMAIN entries : entries[i].category \in DOMAIN categoryMeta

\* C5: every accepted submit appends exactly one user message and exactly
\* one RawLog entry, both with the submitted text and the same timestamp,
\* whatever the module switches, the outcome of the calls or a cancellation;
\* the RawLog holds one entry per accepted submit.
C5_AcceptedSubmitIsLogged ==
    /\ [](/\ Len(rawLogs) = nextTurn - 1
          /\ Len(UserMessages(messages)) = Len(rawLogs)
          /\ \A i \in DOMAIN rawLogs :
                /\ rawLogs[i].text = UserMessages(messages)[i].text
                /\ rawLogs[i].timestamp = UserMessages(messages)[i].timestamp)
    /\ [][(/\ lastOp'.op = "submit"
           /\ Trim(lastOp'.input) # ""
           /\ ~isProcessing)
          => /\ messages' = Append(messages, ChatMessage("user", lastOp'.input, now, << >>))
             /\ Len(rawLogs') = Len(rawLogs) + 1
             /\ SubSeq(rawLogs', 1, Len(rawLogs)) = rawLogs
             /\ rawLogs'[Len(rawLogs')].text = lastOp'.input
             /\ rawLogs'[Len(rawLogs')].timestamp = now]_vars

\* A second submit was accepted, later than the first, after the first turn
\* was cancelled, with the extraction module switched off.
C5_Witness ==
    /\ lastOp.op = "submit"
    /\ lastOp.arg = 2
    /\ stopped = {1}
    /\ ~chatSettings.organizerEnabled
    /\ Len(rawLogs) = 2
    /\ rawLogs[2].timestamp = 1

\* The candidates a response of the extraction call carries.
Candidates(resp) ==
    IF resp.kind = "json" /\ resp.value.t = "array" THEN Len(resp.value.items) ELSE 0

\* C6: the return of an extraction call appends a system message if and only
\* if the call returned at least one candidate; it then appends exactly one,
\* inserts every candidate, and the message's relatedEntryIds are the ids of
\* the entries inserted, in the same order.
C6_SystemMessageIffCandidates ==
    [][\A t \in InFlight : \A resp \in ExtractionResponses :
            OrganizeReturn(t, resp) =>
                IF Candidates(resp) >= 1
                THEN /\ Len(entries') = Len(entries) + Candidates(resp)
                     /\ Len(messages') = Len(messages) + 1
                     /\ messages'[Len(messages')].role = "system"
                     /\ messages'[Len(messages')].relatedEntryIds =
                            Ids(SubSeq(entries', Len(entries) + 1, Len(entries')))
                ELSE /\ entries' = entries
                     /\ messages' = messages]_vars

\* The responses the specification counts as zero results.
ZeroResults ==
    { resp \in ExtractionResponses :
        \/ resp.kind # "json"
        \/ resp.value.t # "array"
        \/ resp.value.items = << >>
        \/ \E i \in DOMAIN resp.value.items : resp.value.items[i].isNull }

\* C8: a transport failure, an empty response, unparsable text, a JSON
\* string, a non-array JSON value and an array containing null are all zero
\* results: no exception escapes, no entry is inserted, no system message is
\* appended, and the busy flag is cleared.
C8_MalformedResponseIsZeroResults ==
    [][\A t \in InFlight : \A resp \in ZeroResults :
            OrganizeReturn(t, resp) =>
                /\ unhandled' = unhandled
                /\ entries' = entries
                /\ messages' = messages
                /\ ~isProcessing']_vars

\* C9: revoke(messageIndex, entryIds) removes from the Entry Store exactly
\* the entries whose id is listed and keeps the others in order, marks the
\* message at messageIndex as revoked, and leaves every other message, the
\* RawLog and the taxonomy unchanged.
C9_RevokeRemovesExactlyTheListed ==
    [][lastOp'.op = "undo" =>
        LET m == lastOp'.arg
            ids == lastOp'.input
        IN  /\ entries' = SelectSeq(entries,
                    LAMBDA e : \A k \in DOMAIN ids : ids[k] # e.id)
            /\ Len(messages') = Len(messages)
            /\ \A i \in DOMAIN messages : i # m => messages'[i] = messages[i]
            /\ m \in DOMAIN messages =>
                    /\ Includes(messages'[m].text, "(Revoked)")
                    /\ messages'[m].role = messages[m].role
                    /\ messages'[m].relatedEntryIds = messages[m].relatedEntryIds
            /\ rawLogs' = rawLogs
            /\ categoryMeta' = categoryMeta]_vars

\* Entries 1 and 3 were revoked through the system message; entry 2 stays.
C9_Witness ==
    /\ lastOp = [op |-> "undo", arg |-> 2, input |-> <<1, 3>>]
    /\ Ids(entries) = <<2>>
    /\ RevokedMarks(messages[2].text) = 1

\* C10: a revoke applied a second time with the same message index and the
\* same ids leaves the Entry Store as the first revoke left it.
C10_RevokeTwiceIsRevokeOnce ==
    [][(/\ lastOp.op = "undo"
        /\ lastOp'.op = "undo"
        /\ lastOp'.arg = lastOp.arg
        /\ lastOp'.input = lastOp.input)
       => entries' = entries]_vars

\* The same revoke ran twice on a store that held entries 1, 2 and 3.
C10_Witness ==
    /\ lastOp = [op |-> "undo", arg |-> 2, input |-> <<3, 1>>]
    /\ Ids(entries) = <<2>>
    /\ RevokedMarks(messages[2].text) = 2

\* ---------------------------------------------------------------------------
\* The configuration editor
\* ---------------------------------------------------------------------------

MaxKeys == 2

\* The categories the user works on, and what is typed into the editor.
Selectable(catKey) == catKey \in {"idea", "other"} \/ catKey \notin DOMAIN INITIAL_CATEGORY_META
LabelInputs == {"renamed"}
TypeInputs == {"text", "number", "select"}
PromptInputs == {"", "name"}

\* The category is listed under one of the groups (lines 1683-1684).
Listed(catKey) ==
    /\ catKey \in DOMAIN categoryMeta
    /\ \E i \in DOMAIN groups : groups[i] = categoryMeta[catKey]

\* The fields the editor shows (line 1763).
EditorFields ==
    IF editingSchemaCat = NoCategory THEN << >>
    ELSE SchemaOf(customSchemas, editingSchemaCat)

\* A type select that is never disabled.
TypeNeverDisabled(field) == FALSE

\* disabled={isStandard} of the type select (line 1779).
TypeDisabled(field) == IsStandard(field)

\* disabled={isStandard && field.key !== 'notes'} of the checkbox (line 1789).
RequiredDisabled(field) == IsStandard(field) /\ field.key # "notes"

AddCategory ==
    /\ nextId <= MaxKeys
    /\ \E i \in DOMAIN groups, label \in PromptInputs : addCategory(groups[i], label)

DeleteCategory ==
    \E key \in DOMAIN categoryMeta, confirmed \in BOOLEAN :
        /\ Selectable(key)
        /\ Listed(key)
        /\ deleteCategory(key, confirmed)

SelectCategory ==
    \E catKey \in DOMAIN categoryMeta :
        /\ Selectable(catKey)
        /\ Listed(catKey)
        /\ catKey # editingSchemaCat
        /\ setEditingSchemaCat(catKey)

UpdateLabel ==
    \E idx \in DOMAIN EditorFields, label \in LabelInputs :
        updateField(EditorFields[idx].key, idx, [label |-> label])

UpdateType ==
    \E idx \in DOMAIN EditorFields, type \in TypeInputs :
        /\ ~TypeDisabled(EditorFields[idx])
        /\ updateField(EditorFields[idx].key, idx, [type |-> type])

UpdateRequired ==
    \E idx \in DOMAIN EditorFields :
        /\ ~RequiredDisabled(EditorFields[idx])
        /\ updateField(EditorFields[idx].key, idx,
                       [required |-> ~EditorFields[idx].required])

AddField ==
    /\ editingSchemaCat # NoCategory
    /\ nextId <= MaxKeys
    /\ addField

RemoveField ==
    \E idx \in DOMAIN EditorFields, confirmed \in BOOLEAN : removeField(idx, confirmed)

AddGroup ==
    /\ nextId <= MaxKeys
    /\ \E label \in PromptInputs : addGroup(label)

DeleteGroup ==
    \E i \in DOMAIN groups, confirmed \in BOOLEAN : deleteGroup(groups[i], confirmed)

MoveGroup == \E idx \in DOMAIN groups, dir \in {-1, 1} : moveGroup(idx, dir)

\* Categories and their fields come and go.
NextTaxonomy ==
    \/ AddCategory
    \/ DeleteCategory
    \/ SelectCategory
    \/ AddField
    \/ RemoveField

SpecTaxonomy == Init /\ [][NextTaxonomy]_vars

\* The fields of a category are edited in place.
NextFields ==
    \/ SelectCategory
    \/ UpdateLabel
    \/ UpdateType
    \/ UpdateRequired

SpecFields == Init /\ [][NextFields]_vars

\* Groups are added, deleted and reordered.
NextGroups ==
    \/ AddGroup
    \/ DeleteGroup
    \/ MoveGroup

SpecGroups == Init /\ [][NextGroups]_vars

\* The keys of a field schema, in order.
Keys(fields) == [i \in DOMAIN fields |-> fields[i].key]

\* C12: every category registered in the taxonomy, the built-in ones and the
\* freshly created ones, has a field schema that contains the four standard
\* fields summary, time, duration and notes.
C12_EveryCategoryHasStandardFields ==
    \A k \in DOMAIN categoryMeta :
        STANDARD_FIELDS \subseteq Range(Keys(SchemaOf(customSchemas, k)))

\* C13: removeField on a standard field changes no schema; removeField on
\* any other field removes exactly that field from the schema of the edited
\* category, keeps the other fields in their order and leaves every other
\* schema alone.
C13_RemoveFieldSparesStandardFields ==
    [][lastOp'.op = "removeField" =>
        LET idx == lastOp'.arg
            fields == EditorFields
        IN  IF fields[idx].key \in {"summary", "time", "duration", "notes"}
               \/ ~lastOp'.input
            THEN customSchemas' = customSchemas
            ELSE /\ DOMAIN customSchemas' = DOMAIN customSchemas \cup {editingSchemaCat}
                 /\ customSchemas'[editingSchemaCat] =
                        [i \in 1..(Len(fields) - 1) |->
                            IF i < idx THEN fields[i] ELSE fields[i + 1]]
                 /\ \A k \in DOMAIN customSchemas \ {editingSchemaCat} :
                        customSchemas'[k] = customSchemas[k]]_vars

\* The field topic of the category idea was removed; its standard fields stay.
C13_Witness ==
    /\ lastOp = [op |-> "removeField", arg |-> 4, input |-> TRUE]
    /\ editingSchemaCat = "idea"
    /\ Keys(customSchemas["idea"]) = <<"summary", "time", "duration", "notes">>

\* C14: no updateField changes the key or the type of a standard field of
\* any category, nor the required flag of summary, time or duration; their
\* label, and the required flag of notes, may change.
C14_UpdateFieldKeepsStandardKeyAndType ==
    [][lastOp'.op = "updateField" =>
        /\ DOMAIN customSchemas' = DOMAIN customSchemas
        /\ \A k \in DOMAIN customSchemas :
            /\ Len(customSchemas'[k]) = Len(customSchemas[k])
            /\ \A i \in DOMAIN customSchemas[k] :
                customSchemas[k][i].key \in STANDARD_FIELDS =>
                    /\ customSchemas'[k][i].key = customSchemas[k][i].key
                    /\ customSchemas'[k][i].type = customSchemas[k][i].type
                    /\ customSchemas[k][i].key # "notes" =>
                            customSchemas'[k][i].required = customSchemas[k][i].required]_vars

\* The label of summary and the required flag of notes of the category idea
\* were changed, and so was the type of its own field topic.
C14_Witness ==
    /\ lastOp.op = "updateField"
    /\ customSchemas["idea"][1].label = "renamed"
    /\ ~customSchemas["idea"][5].required
    /\ customSchemas["idea"][4].type = "number"

\* C15: deleteGroup on a core group id leaves the groups unchanged, and the
\* three core groups are present whatever groups are added, deleted or moved.
C15_CoreGroupsStay ==
    /\ [][(lastOp'.op = "deleteGroup" /\ lastOp'.input \in {"life", "body", "work"})
            => groups' = groups]_vars
    /\ []({"life", "body", "work"} \subseteq Range(groups))

\* A group was added, moved to the front and another one deleted; then the
\* deletion of the core group body was refused.
C15_Witness ==
    /\ lastOp = [op |-> "deleteGroup", arg |-> 0, input |-> "body"]
    /\ nextId = 3
    /\ Len(groups) = 4
    /\ groups[1] \notin {"life", "body", "work"}

\* C16: addCategory adds exactly one category under a key that was not in
\* use, in the group it was given, with a schema of exactly the four standard
\* fields in the order summary, time, duration, notes; the metadata and the
\* schemas of the categories there were are unchanged.
C16_AddCategorySeedsStandardSchema ==
    [][(lastOp'.op = "addCategory" /\ lastOp'.input[2] # "") =>
        LET new == DOMAIN categoryMeta' \ DOMAIN categoryMeta
        IN  /\ Cardinality(new) = 1
            /\ DOMAIN categoryMeta \subseteq DOMAIN categoryMeta'
            /\ \A key \in new :
                /\ key \notin DOMAIN customSchemas
                /\ categoryMeta'[key] = lastOp'.input[1]
                /\ DOMAIN customSchemas' = DOMAIN customSchemas \cup {key}
                /\ Keys(customSchemas'[key]) = <<"summary", "time", "duration", "notes">>
            /\ \A k \in DOMAIN categoryMeta : categoryMeta'[k] = categoryMeta[k]
            /\ \A k \in DOMAIN customSchemas : customSchemas'[k] = customSchemas[k]]_vars

\* A second category was created, in the group body, after the first one
\* had been deleted.
C16_Witness ==
    /\ lastOp = [op |-> "addCategory", arg |-> 0, input |-> <<"body", "name">>]
    /\ "cat_2" \in DOMAIN categoryMeta
    /\ categoryMeta["cat_2"] = "body"
    /\ "cat_1" \in DOMAIN customSchemas
    /\ "cat_1" \notin DOMAIN categoryMeta

\* ---------------------------------------------------------------------------
\* The message log under regenerate, delete and revoke
\* ---------------------------------------------------------------------------

NextLog ==
    \/ Send
    \/ Stop
    \/ Regenerate
    \/ Delete
    \/ Revoke
    \/ ChatSettles
    \/ OrganizeSettlesPlain

SpecLog == Init /\ [][NextLog]_vars

\* The message carries the revoked annotation (line 1910).
IsRevoked(m) == Includes(m.text, "(Revoked)")

\* C11: the revoked annotation is idempotent and one-way: a revoke of a
\* message that is already revoked leaves the message log as it was, and a
\* system message that is revoked is still revoked after every step that
\* keeps it.
C11_RevokedIsIdempotentAndOneWay ==
    [][/\ (/\ lastOp'.op = "undo"
           /\ lastOp'.arg \in DOMAIN messages
           /\ IsRevoked(messages[lastOp'.arg]))
          => messages' = messages
       /\ \A i \in DOMAIN messages : \A j \in DOMAIN messages' :
            (/\ messages[i].role = "system"
             /\ IsRevoked(messages[i])
             /\ messages'[j].role = "system"
             /\ messages'[j].relatedEntryIds = messages[i].relatedEntryIds)
            => IsRevoked(messages'[j])]_vars

\* ---------------------------------------------------------------------------
\* The context selector as a function
\* ---------------------------------------------------------------------------

MaxLog == 2

\* Timestamps around the ends of days 0 and 1.
Stamps == {0, DAY - 1, DAY, 2 * DAY - 1, 2 * DAY, 2 * DAY + 1}

\* Message logs in the order they were written.
Logs ==
    UNION { { [i \in 1..n |-> ChatMessage(f[i][1], "hi", f[i][2], << >>)] :
                f \in { g \in [1..n -> {"user", "model"} \X Stamps] :
                            \A i \in 1..(n - 1) : g[i][2] <= g[i + 1][2] } }
            : n \in 0..MaxLog }

\* Every mode, finite and infinite rounds, custom ranges over days 0 and 1.
Policies ==
    { [DefaultChatSettings EXCEPT !.contextMode = mode, !.contextRounds = rounds,
                                  !.customStartDate = startDate,
                                  !.customEndDate = endDate] :
        mode \in {"global", "today", "week", "custom"}, rounds \in {0, 1, 10, 9999},
        startDate \in {0, 1}, endDate \in {0, 1} }

InitSelect ==
    /\ messages \in Logs
    /\ rawLogs = << >>
    /\ entries = << >>
    /\ isProcessing = FALSE
    /\ abortControllerRef = NoController
    /\ chatSettings \in Policies
    /\ categoryMeta = INITIAL_CATEGORY_META
    /\ editingMsgIndex = NoIndex
    /\ turns = << >>
    /\ nextTurn = 1
    /\ nextId = 1
    /\ now \in {DAY, 2 * DAY}
    /\ unhandled = 0
    /\ lastOp = Op("init", 0)
    /\ stopped = {}
    /\ groups = INITIAL_GROUPS
    /\ customSchemas = INITIAL_SCHEMAS
    /\ editingSchemaCat = NoCategory
    /\ relevantHistory = << >>

NextSelect == Select

SpecSelect == InitSelect /\ [][NextSelect]_vars

\* out is in, with some elements left out.
IsSubsequence(out, in) ==
    \E f \in [1..Len(out) -> 1..Len(in)] :
        /\ \A i \in 1..Len(out) : out[i] = in[f[i]]
        /\ \A i \in 1..(Len(out) - 1) : f[i] < f[i + 1]

\* C17: for every message log and every context policy, rounds 0 included,
\* what the selector returns is a subsequence of the log in the original
\* order, holds only user messages, and has at most contextRounds elements
\* when contextRounds < 9999.
C17_SelectIsBoundedUserSubsequence ==
    lastOp.op = "select" =>
        /\ IsSubsequence(relevantHistory, messages)
        /\ \A i \in DOMAIN relevantHistory : relevantHistory[i].role = "user"
        /\ chatSettings.contextRounds < 9999 =>
                Len(relevantHistory) <= chatSettings.contextRounds

\* C18: in custom mode (with no limit on rounds) the selector keeps a user
\* message if and only if its timestamp lies in the half-open interval from
\* customStart 00:00 to customEnd + 1 day.
C18_CustomRangeIsHalfOpen ==
    (/\ lastOp.op = "select"
     /\ chatSettings.contextMode = "custom"
     /\ chatSettings.contextRounds >= 9999) =>
        \A i \in DOMAIN messages :
            messages[i].role = "user" =>
                ((\E j \in DOMAIN relevantHistory : relevantHistory[j] = messages[i])
                    <=> (/\ messages[i].timestamp >= chatSettings.customStartDate * DAY
                         /\ messages[i].timestamp < (chatSettings.customEndDate + 1) * DAY))

\* ---------------------------------------------------------------------------
\* Regenerate and edit-and-replay, with nothing else happening during the call
\* ---------------------------------------------------------------------------

\* C19: regenerate(messageIndex) changes nothing when it starts; when its
\* call returns next, only the text of the message at messageIndex changes
\* (same number of messages, same roles, timestamps and relatedEntryIds,
\* Entry Store and RawLog unchanged); when it is stopped next, the message
\* log is left as it was.
C19_RegenerateReplacesOneText ==
    [][/\ lastOp'.op = "regenerate" =>
            (messages' = messages /\ entries' = entries /\ rawLogs' = rawLogs)
       /\ (lastOp.op = "regenerate" /\ lastOp.arg # 0) =>
            /\ lastOp' = Op("chatReturn", lastOp.arg) =>
                /\ Len(messages') = Len(messages)
                /\ \A i \in DOMAIN messages :
                    /\ messages'[i].role = messages[i].role
                    /\ messages'[i].timestamp = messages[i].timestamp
                    /\ messages'[i].relatedEntryIds = messages[i].relatedEntryIds
                    /\ i # lastOp.input => messages'[i].text = messages[i].text
                /\ entries' = entries
                /\ rawLogs' = rawLogs
            /\ lastOp'.op = "stop" =>
                (messages' = messages /\ entries' = entries /\ rawLogs' = rawLogs)]_vars

\* The second turn was a regenerate of the model message, and its call has
\* returned a reply.
C19_Witness ==
    /\ lastOp = Op("chatReturn", 2)
    /\ InFlight = {}
    /\ Len(rawLogs) = 1
    /\ Len(messages) = 3
    /\ messages[1].text = "hi"
    /\ messages[2].role = "model"
    /\ messages[2].text = "reply"
    /\ messages[3].role = "system"

\* C20: edit-and-replay of the user message at index i with text t keeps the
\* messages before i, gives message i the text t (role and timestamp kept)
\* and discards every message after i; when its call returns next, exactly
\* one model message is appended; when it is stopped next, nothing is
\* appended and the truncation stays.
C20_EditAndReplayTruncates ==
    [][/\ lastOp'.op = "save" =>
            LET i == lastOp'.input[1]
                t == lastOp'.input[2]
            IN  /\ Len(messages') = i
                /\ \A j \in 1..(i - 1) : messages'[j] = messages[j]
                /\ messages'[i].text = t
                /\ messages'[i].role = messages[i].role
                /\ messages'[i].timestamp = messages[i].timestamp
       /\ lastOp.op = "save" =>
            /\ lastOp' = Op("chatReturn", lastOp.arg) =>
                /\ Len(messages') = Len(messages) + 1
                /\ SubSeq(messages', 1, Len(messages)) = messages
                /\ messages'[Len(messages')].role = "model"
            /\ lastOp'.op = "stop" => messages' = messages]_vars

\* The first turn stored an entry; the edit of the user message discarded
\* the reply and the system message, and the replay appended one reply.
C20_Witness ==
    /\ lastOp = Op("chatReturn", 2)
    /\ InFlight = {}
    /\ Len(entries) = 1
    /\ Len(messages) = 2
    /\ messages[1].text = "ed"
    /\ messages[1].role = "user"
    /\ messages[2].role = "model"

\* ---------------------------------------------------------------------------
\* The message log under every operation on it
\* ---------------------------------------------------------------------------

NextEdits ==
    \/ Send
    \/ Stop
    \/ Regenerate
    \/ Edit
    \/ Save
    \/ SaveAndRegenerate
    \/ Delete
    \/ Revoke
    \/ ChatSettles
    \/ OrganizeSettlesPlain

SpecEdits == Init /\ [][NextEdits]_vars

\* C21: after any sequence of submit, cancel, regenerate, edit-and-replay,
\* message edit, message delete and revoke, every message that carries
\* relatedEntryIds is a system message; no user or model message has any.
C21_OnlySystemMessagesCarryEntryIds ==
    \A i \in DOMAIN messages :
        messages[i].relatedEntryIds # << >> => messages[i].role = "system"

\* A user message was edited and another message was deleted while the log
\* held a system message with its entry ids and a reply of the model.
C21_Witness ==
    /\ lastOp.op = "delete"
    /\ \E i \in DOMAIN messages :
        /\ messages[i].role = "system"
        /\ messages[i].relatedEntryIds # << >>
    /\ \E i \in DOMAIN messages :
        /\ messages[i].role = "user"
        /\ messages[i].text = "ed"
    /\ \E i \in DOMAIN messages : messages[i].role = "model"

\* ---------------------------------------------------------------------------
\* Extraction batches
\* ---------------------------------------------------------------------------

\* The extraction call fails, or returns two candidates.
BatchResponses ==
    {Response("unparsable", JNull),
     Response("json", JArray(<<GoodItem, GoodItem>>)),
     Response("json", JArray(<<NoCategoryItem, GoodItem>>))}

OrganizeSettlesBatch ==
    \E t \in InFlight, resp \in BatchResponses : OrganizeReturn(t, resp)

NextBatch ==
    \/ Send
    \/ Stop
    \/ Revoke
    \/ ChatSettles
    \/ OrganizeSettlesBatch

SpecBatch == Init /\ [][NextBatch]_vars

EntryIds == {entries[i].id : i \in DOMAIN entries}

\* C22: no state holds a half-applied extraction batch: the return of an
\* extraction call either inserts nothing and appends no message, or inserts
\* every candidate and appends the system message in the same step; and a
\* system message is never in the log while one of its relatedEntryIds has
\* not been inserted (they are all in the store until it is revoked).
C22_BatchIsAllOrNothing ==
    /\ [](\A i \in DOMAIN messages :
            messages[i].role = "system" =>
                \A k \in DOMAIN messages[i].relatedEntryIds :
                    /\ messages[i].relatedEntryIds[k] < nextId
                    /\ \/ messages[i].relatedEntryIds[k] \in EntryIds
                       \/ IsRevoked(messages[i]))
    /\ [][\A t \in InFlight : \A resp \in BatchResponses :
            OrganizeReturn(t, resp) =>
                \/ entries' = entries /\ messages' = messages
                \/ /\ Len(entries') = Len(entries) + Candidates(resp)
                   /\ SubSeq(entries', 1, Len(entries)) = entries
                   /\ Len(messages') = Len(messages) + 1
                   /\ messages'[Len(messages')].role = "system"
                   /\ messages'[Len(messages')].relatedEntryIds =
                        Ids(SubSeq(entries', Len(entries) + 1, Len(entries')))]_vars

\* A batch of two candidates has just been stored with its system message.
C22_Witness ==
    /\ lastOp.op = "organizeReturn"
    /\ Len(entries) = 2
    /\ messages[Len(messages)].role = "system"
    /\ messages[Len(messages)].relatedEntryIds = Ids(entries)

\* ---------------------------------------------------------------------------
\* The context of regenerate
\* ---------------------------------------------------------------------------

MaxRegenLog == 3

\* Line 1382: getFilteredHistory().filter(m => m.timestamp <
\* messages[msgIndex].timestamp).
RegenerateHistory(ms, settings, nowTime, msgIndex) ==
    SelectSeq(getFilteredHistory(ms, settings, nowTime),
              LAMBDA m : m.timestamp < ms[msgIndex].timestamp)

\* Lines 1375-1383 of handleRegenerateChat: the history it hands to the
\* conversational call, which only feeds the prompt.
RegenerateContext ==
    \E msgIndex \in DOMAIN messages :
        /\ messages[msgIndex].role = "model"
        /\ UserMessages(SubSeq(messages, 1, msgIndex - 1)) # << >>
        /\ relevantHistory' =
                RegenerateHistory(messages, chatSettings, now, msgIndex)
        /\ lastOp' = Op("regenerateContext", msgIndex)
        /\ UNCHANGED <<messages, rawLogs, entries, isProcessing,
                       abortControllerRef, chatSettings, categoryMeta,
                       editingMsgIndex, turns, nextTurn, nextId, now, unhandled,
                       stopped, groups, customSchemas, editingSchemaCat>>

\* Message logs of up to MaxRegenLog messages, in the order they were written.
RegenLogs ==
    UNION { { [i \in 1..n |-> ChatMessage(f[i][1], "hi", f[i][2], << >>)] :
                f \in { g \in [1..n -> {"user", "model"} \X Stamps] :
                            \A i \in 1..(n - 1) : g[i][2] <= g[i + 1][2] } }
            : n \in 0..MaxRegenLog }

InitContext ==
    /\ messages \in RegenLogs
    /\ rawLogs = << >>
    /\ entries = << >>
    /\ isProcessing = FALSE
    /\ abortControllerRef = NoController
    /\ chatSettings \in Policies
    /\ categoryMeta = INITIAL_CATEGORY_META
    /\ editingMsgIndex = NoIndex
    /\ turns = << >>
    /\ nextTurn = 1
    /\ nextId = 1
    /\ now \in {DAY, 2 * DAY}
    /\ unhandled = 0
    /\ lastOp = Op("init", 0)
    /\ stopped = {}
    /\ groups = INITIAL_GROUPS
    /\ customSchemas = INITIAL_SCHEMAS
    /\ editingSchemaCat = NoCategory
    /\ relevantHistory = << >>

NextContext == RegenerateContext

SpecContext == InitContext /\ [][NextContext]_vars

\* The messages stamped strictly before the message at msgIndex.
Before(ms, msgIndex) ==
    SelectSeq(ms, LAMBDA m : m.timestamp < ms[msgIndex].timestamp)

\* C23: the context regenerate(messageIndex) sends is the selector applied
\* to the messages stamped strictly before the target message: the last
\* contextRounds date-filtered user messages that precede the target.
C23_RegenerateContextIsSelectorBeforeTarget ==
    lastOp.op = "regenerateContext" =>
        relevantHistory =
            getFilteredHistory(Before(messages, lastOp.arg), chatSettings, now)

\* ---------------------------------------------------------------------------
\* Stop and the turns in flight
\* ---------------------------------------------------------------------------

\* C24: whenever the busy flag is true the stored abort controller belongs
\* to a turn that is in flight, and every turn in flight can be cancelled by
\* Stop: while a turn is in flight the Stop button is there (the busy flag
\* is true) and the stored controller is that turn's.
C24_StopReachesEveryTurnInFlight ==
    /\ isProcessing => abortControllerRef \in InFlight
    /\ \A t \in InFlight : isProcessing /\ abortControllerRef = t

\* ---------------------------------------------------------------------------
\* Regenerate while the log changes
\* ---------------------------------------------------------------------------

\* C25: when the call of a regenerate returns after the log was changed by a
\* delete or a truncation, it changes at most the message it was started
\* for: the log keeps its length, no user or system message changes, and no
\* message without a role appears past the end of the log.
C25_RegenerateReturnKeepsToItsMessage ==
    [][\A t \in InFlight :
            (turns[t].kind = "regen" /\ lastOp' = Op("chatReturn", t)) =>
                /\ Len(messages') = Len(messages)
                /\ \A i \in DOMAIN messages :
                        messages[i].role \in {"user", "system"}
                            => messages'[i] = messages[i]
                /\ \A i \in DOMAIN messages' :
                        messages'[i].role \in {"user", "model", "system"}]_vars

\* ---------------------------------------------------------------------------
\* Every turn ends
\* ---------------------------------------------------------------------------

\* Every way to start a turn, under every response of the two calls.
NextLive ==
    \/ Send
    \/ Stop
    \/ Regenerate
    \/ Edit
    \/ SaveAndRegenerate
    \/ ChatSettles
    \/ OrganizeSettles

\* A pending call eventually fulfils or fails (lines 1230-1240, 1268-1300).
Fairness == WF_vars(ChatSettles) /\ WF_vars(OrganizeSettles)

SpecLive == Init /\ [][NextLive]_vars /\ Fairness

\* C26: every accepted turn eventually returns the controller to idle:
\* when each call eventually settles, the busy flag eventually becomes false
\* after every accepted submit, regenerate or edit-and-replay, whatever the
\* two calls return, and it becomes true again only when a turn is started.
C26_EveryTurnReturnsToIdle ==
    /\ isProcessing ~> ~isProcessing
    /\ [][(~isProcessing /\ isProcessing')
            => lastOp'.op \in {"submit", "regenerate", "save"}]_vars

\* ---------------------------------------------------------------------------
\* The extraction request and the taxonomy
\* ---------------------------------------------------------------------------

\* Lines 1254-1258: one "Table:" block per entry of customSchemas.
RenderedSchemas == DOMAIN customSchemas

\* Line 1274: enum: Object.keys(categoryMeta).
AllowedCategories == DOMAIN categoryMeta

\* C27: the schema list rendered into the extraction request matches the
\* live taxonomy: in every state the categories whose field schema is
\* rendered are exactly the allowed category keys, and after
\* deleteCategory(key) the key is neither allowed nor rendered.
C27_RenderedSchemasMatchTaxonomy ==
    /\ [](RenderedSchemas = AllowedCategories)
    /\ [][(lastOp'.op = "deleteCategory" /\ lastOp'.input \notin DOMAIN categoryMeta')
            => /\ lastOp'.input \notin AllowedCategories'
               /\ lastOp'.input \notin RenderedSchemas']_vars

\* ---------------------------------------------------------------------------
\* What editing and deleting messages leave alone
\* ---------------------------------------------------------------------------

NextFrame ==
    \/ Send
    \/ Edit
    \/ Save
    \/ SaveAndRegenerate
    \/ Delete
    \/ ChatSettles
    \/ OrganizeSettlesPlain

SpecFrame == Init /\ [][NextFrame]_vars

\* C28: edit-and-replay (its start and the return of its call), a message
\* edit and the deletion of a message never change
\* the Entry Store or the RawLog: the entries of a system message that the
\* truncation discards stay in the store, and the RawLog line of an edited
\* or deleted user message keeps its text.
C28_EditAndDeleteKeepStoreAndRawLog ==
    [][/\ lastOp'.op \in {"save", "delete", "update"}
            => (entries' = entries /\ rawLogs' = rawLogs)
       /\ \A t \in InFlight :
            (turns[t].kind = "save" /\ lastOp' = Op("chatReturn", t))
                => (entries' = entries /\ rawLogs' = rawLogs)]_vars

\* The edit-and-replay of the user message has just discarded the system
\* message of an entry that is still in the store, and the RawLog line still
\* has the text that was submitted.
C28_Witness ==
    /\ lastOp.op = "save"
    /\ Len(entries) = 1
    /\ Len(messages) = 1
    /\ messages[1].text = "ed"
    /\ Len(rawLogs) = 1
    /\ rawLogs[1].text = "hi"

\* ---------------------------------------------------------------------------
\* A submit cancelled during its conversational call
\* ---------------------------------------------------------------------------

\* C29: when a submit turn is cancelled (its controller is aborted by Stop)
\* while its conversational call is pending, the turn ends there: the
\* organizer is never run for it, it inserts no entry and appends no
\* message although the organizer module is enabled, and the user message
\* and the RawLog entry written before the call remain.  A turn that has
\* ended never resumes: only new turns enter the turns in flight.
C29_CancelledSubmitSkipsOrganizer ==
    [][/\ \A t \in InFlight :
            (/\ turns[t].kind = "send"
             /\ turns[t].pc = "chat"
             /\ lastOp' = Op("stop", t))
            => /\ t \notin InFlight'
               /\ entries' = entries
               /\ messages' = messages
               /\ rawLogs' = rawLogs
       /\ \A t \in InFlight' \ InFlight : t = nextTurn /\ nextTurn' = nextTurn + 1
       /\ \A t \in InFlight \cap InFlight' :
            (turns[t].pc # "organize" /\ turns'[t].pc = "organize")
                => lastOp' = Op("chatReturn", t)]_vars

\* The only turn, a submit with the organizer enabled, has just been
\* cancelled during its conversational call.
C29_Witness ==
    /\ lastOp = Op("stop", 1)
    /\ InFlight = {}
    /\ nextTurn = 2
    /\ chatSettings.organizerEnabled
    /\ ~isProcessing
    /\ Len(messages) = 1
    /\ messages[1].role = "user"
    /\ Len(rawLogs) = 1
    /\ rawLogs[1].text = messages[1].text
    /\ entries = << >>

\* ---------------------------------------------------------------------------
\* Reordering the groups
\* ---------------------------------------------------------------------------

\* C30: moveGroup only permutes the groups: a move swaps the group with its
\* neighbour in the given direction and leaves every other position alone,
\* moving the first group up or the last group down changes nothing, and
\* the collection keeps exactly the same groups, none twice and none lost.
C30_MoveGroupOnlyPermutes ==
    /\ [](Cardinality(Range(groups)) = Len(groups))
    /\ [][lastOp'.op = "moveGroup" =>
            LET idx == lastOp'.arg
                dir == lastOp'.input
            IN  /\ Len(groups') = Len(groups)
                /\ Range(groups') = Range(groups)
                /\ IF (idx = 1 /\ dir = -1) \/ (idx = Len(groups) /\ dir = 1)
                   THEN groups' = groups
                   ELSE /\ groups'[idx] = groups[idx + dir]
                        /\ groups'[idx + dir] = groups[idx]
                        /\ \A i \in DOMAIN groups \ {idx, idx + dir} :
                                groups'[i] = groups[i]]_vars

\* With four groups, the first group has just been moved down: body now
\* comes before life.
C30_Witness ==
    /\ lastOp = [op |-> "moveGroup", arg |-> 1, input |-> 1]
    /\ Len(groups) = 4
    /\ groups[1] = "body"
    /\ groups[2] = "life"

====
